---- MODULE Spec2Model ----
(***************************************************************************)
(* Model of protoc-gen-service-registry: the protoc plugin of src/main.go  *)
(* and its second build src/unnamed/part_000.  One run of the plugin is    *)
(* modelled: the parameter string is parsed, the files of the request are  *)
(* walked, and for every service of a file flagged for generation the      *)
(* template is loaded, parsed, executed, formatted and registered.         *)
(* Strings are sequences of one-character strings so that Split, SplitN,   *)
(* TrimSpace, TrimPrefix, TrimSuffix, ToLower and filepath.Join are        *)
(* computed character by character, as the Go library computes them.       *)
(***************************************************************************)
EXTENDS Integers, Sequences, FiniteSets, TLC

VARIABLES variant, param, entries, files, diskTemplate,
          pc, config, fi, si, data, tmplContent, buf, formatted,
          genFiles, err, response, log

vars == <<variant, param, entries, files, diskTemplate,
          pc, config, fi, si, data, tmplContent, buf, formatted,
          genFiles, err, response, log>>

(* ------------------------------ bounds -------------------------------- *)
MaxFiles == 2
MaxServices == 2
MaxEntries == 3

(* ------------------------- string literals ---------------------------- *)
s_template_file == <<"t","e","m","p","l","a","t","e","_","f","i","l","e">>
s_output_dir == <<"o","u","t","p","u","t","_","d","i","r">>
s_package_name == <<"p","a","c","k","a","g","e","_","n","a","m","e">>
s_local_service_center == <<"l","o","c","a","l","_","s","e","r","v","i","c","e","_","c","e","n","t","e","r">>
s_Service == <<"S","e","r","v","i","c","e">>
s_proto_us == <<"p","r","o","t","o","_">>
s_proto_dot == <<"p","r","o","t","o",".">>
s_dot_go == <<".","g","o">>

(* ------------------------ Go string library --------------------------- *)
\* index of the first occurrence of the character c in s, 0 when absent
IndexByte(s, c) ==
  IF \E i \in 1..Len(s) : s[i] = c
  THEN CHOOSE i \in 1..Len(s) : s[i] = c /\ \A j \in 1..(i-1) : s[j] # c
  ELSE 0

RECURSIVE Split(_, _)
\* strings.Split(s, sep) for a one-character separator
Split(s, c) ==
  LET i == IndexByte(s, c)
  IN IF i = 0 THEN <<s>>
     ELSE <<SubSeq(s, 1, i-1)>> \o Split(SubSeq(s, i+1, Len(s)), c)

\* strings.Split in the place of strings.SplitN: a value holding "=" gives
\* more than two parts
SplitAll(s, c) == Split(s, c)

\* strings.SplitN(s, sep, 2) for a one-character separator
SplitN2(s, c) ==
  LET i == IndexByte(s, c)
  IN IF i = 0 THEN <<s>>
     ELSE <<SubSeq(s, 1, i-1), SubSeq(s, i+1, Len(s))>>

IsSpace(c) == c \in {" ", "\t", "\n", "\r"}

RECURSIVE TrimLeft(_)
TrimLeft(s) ==
  IF s # <<>> /\ IsSpace(Head(s)) THEN TrimLeft(Tail(s)) ELSE s

RECURSIVE TrimRight(_)
TrimRight(s) ==
  IF s # <<>> /\ IsSpace(s[Len(s)]) THEN TrimRight(SubSeq(s, 1, Len(s)-1)) ELSE s

\* strings.TrimSpace
TrimSpace(s) == TrimRight(TrimLeft(s))

HasPrefix(s, p) == Len(s) >= Len(p) /\ SubSeq(s, 1, Len(p)) = p
HasSuffix(s, p) == Len(s) >= Len(p) /\ SubSeq(s, Len(s)-Len(p)+1, Len(s)) = p

\* strings.TrimPrefix: removes one leading p, if there is one
TrimPrefix(s, p) == IF HasPrefix(s, p) THEN SubSeq(s, Len(p)+1, Len(s)) ELSE s

\* strings.TrimSuffix: removes one trailing p, if there is one
TrimSuffix(s, p) == IF HasSuffix(s, p) THEN SubSeq(s, 1, Len(s)-Len(p)) ELSE s

UpperLetters == <<"A","B","C","D","E","F","G","H","I","J","K","L","M",
                  "N","O","P","Q","R","S","T","U","V","W","X","Y","Z">>
LowerLetters == <<"a","b","c","d","e","f","g","h","i","j","k","l","m",
                  "n","o","p","q","r","s","t","u","v","w","x","y","z">>

IsUpper(c) == \E i \in 1..26 : UpperLetters[i] = c

\* first + 32 for a byte in 'A'..'Z'
LowerByte(c) ==
  IF IsUpper(c) THEN LowerLetters[CHOOSE i \in 1..26 : UpperLetters[i] = c] ELSE c

\* strings.ToLower
ToLower(s) == [i \in 1..Len(s) |-> LowerByte(s[i])]

RECURSIVE JoinSep(_, _)
\* strings.Join(elems, sep)
JoinSep(elems, sep) ==
  IF elems = <<>> THEN <<>>
  ELSE IF Len(elems) = 1 THEN elems[1]
  ELSE elems[1] \o sep \o JoinSep(Tail(elems), sep)

RECURSIVE CleanElems(_, _, _)
\* the element loop of filepath.Clean: "" and "." are dropped, ".." removes
\* the element before it (or is kept, for a relative path with nothing left)
CleanElems(elems, out, rooted) ==
  IF elems = <<>> THEN out
  ELSE LET e == Head(elems)
           rest == Tail(elems)
       IN IF e = <<>> \/ e = <<".">> THEN CleanElems(rest, out, rooted)
          ELSE IF e = <<".", ".">>
               THEN IF out # <<>> /\ out[Len(out)] # <<".", ".">>
                    THEN CleanElems(rest, SubSeq(out, 1, Len(out)-1), rooted)
                    ELSE IF rooted THEN CleanElems(rest, out, rooted)
                         ELSE CleanElems(rest, Append(out, e), rooted)
               ELSE CleanElems(rest, Append(out, e), rooted)

\* filepath.Clean (separator '/')
Clean(path) ==
  IF path = <<>> THEN <<".">>
  ELSE LET rooted == path[1] = "/"
           out == JoinSep(CleanElems(Split(path, "/"), <<>>, rooted), <<"/">>)
           res == IF rooted THEN <<"/">> \o out ELSE out
       IN IF res = <<>> THEN <<".">> ELSE res

\* filepath.Join(dir, name): empty elements are ignored, the rest is joined
\* with the separator and cleaned
FilepathJoin(dir, name) ==
  LET parts == SelectSeq(<<dir, name>>, LAMBDA e : e # <<>>)
  IN IF parts = <<>> THEN <<>> ELSE Clean(JoinSep(parts, <<"/">>))

(* ------------------------- parsePluginOptions ------------------------- *)
NoErr == ""

DefaultConfig ==
  [TemplateFile |-> <<>>,
   OutputDir    |-> s_local_service_center,
   PackageName  |-> s_local_service_center]

\* the loop body without strings.TrimSpace
ApplyPairNoTrim(c, pair) ==
  LET kv == SplitN2(pair, "=")
  IN IF Len(kv) # 2 THEN c
     ELSE IF kv[1] = s_template_file THEN [c EXCEPT !.TemplateFile = kv[2]]
     ELSE IF kv[1] = s_output_dir THEN [c EXCEPT !.OutputDir = kv[2]]
     ELSE IF kv[1] = s_package_name THEN [c EXCEPT !.PackageName = kv[2]]
     ELSE c

\* the body of the loop over pairs: one "key=value" entry
ApplyPair(c, pair) ==
  LET kv == SplitN2(pair, "=")
  IN IF Len(kv) # 2 THEN c
     ELSE LET key == TrimSpace(kv[1])
              value == TrimSpace(kv[2])
          IN IF key = s_template_file THEN [c EXCEPT !.TemplateFile = value]
             ELSE IF key = s_output_dir THEN [c EXCEPT !.OutputDir = value]
             ELSE IF key = s_package_name THEN [c EXCEPT !.PackageName = value]
             ELSE c

RECURSIVE ApplyPairs(_, _)
ApplyPairs(c, pairs) ==
  IF pairs = <<>> THEN c ELSE ApplyPairs(ApplyPair(c, Head(pairs)), Tail(pairs))

\* parsePluginOptions without the check of the required parameter
parsePluginOptionsNoCheck(p) ==
  IF p = <<>> THEN [config |-> <<>>, err |-> "param_empty"]
  ELSE [config |-> <<ApplyPairs(DefaultConfig, Split(p, ","))>>, err |-> NoErr]

\* parsePluginOptions: config is <<>> for the nil pointer, <<c>> otherwise
parsePluginOptions(p) ==
  IF p = <<>> THEN [config |-> <<>>, err |-> "param_empty"]
  ELSE LET c == ApplyPairs(DefaultConfig, Split(p, ","))
       IN IF c.TemplateFile = <<>>
          THEN [config |-> <<>>, err |-> "template_file_required"]
          ELSE [config |-> <<c>>, err |-> NoErr]

(* ------------------------------ inputs -------------------------------- *)
\* entries of a parameter string: the text of the entry as it stands in the
\* string, and the key and value the documented format gives it (key "" for
\* an entry that sets nothing)
EntryPool ==
  << [text |-> <<"t","e","m","p","l","a","t","e","_","f","i","l","e","=","t">>, key |-> "template_file", val |-> <<"t">>],
     [text |-> <<" ","t","e","m","p","l","a","t","e","_","f","i","l","e"," ","="," ","u"," ">>, key |-> "template_file", val |-> <<"u">>],
     [text |-> <<"t","e","m","p","l","a","t","e","_","f","i","l","e","=">>, key |-> "template_file", val |-> <<>>],
     [text |-> <<"t","e","m","p","l","a","t","e","_","f","i","l","e","=","a","=","b">>, key |-> "template_file", val |-> <<"a","=","b">>],
     [text |-> <<"o","u","t","p","u","t","_","d","i","r","=","o","u","t">>, key |-> "output_dir", val |-> <<"o","u","t">>],
     [text |-> <<"o","u","t","p","u","t","_","d","i","r","=","\t">>, key |-> "output_dir", val |-> <<>>],
     [text |-> <<"p","a","c","k","a","g","e","_","n","a","m","e","=","p","k","g">>, key |-> "package_name", val |-> <<"p","k","g">>],
     [text |-> <<"p","a","c","k","a","g","e","_","n","a","m","e"," ","="," "," ","p"," ">>, key |-> "package_name", val |-> <<"p">>],
     [text |-> <<"f","o","o","=","b","a","r">>, key |-> "", val |-> <<>>],
     [text |-> <<"t","e","m","p","l","a","t","e","_","f","i","l","e">>, key |-> "", val |-> <<>>],
     [text |-> <<>>, key |-> "", val |-> <<>>],
     [text |-> <<"T","e","m","p","l","a","t","e","_","F","i","l","e","=","x">>, key |-> "", val |-> <<>>],
     [text |-> <<"=","v">>, key |-> "", val |-> <<>>],
     [text |-> <<"o","u","t","p","u","t","_","d","i","r","=","a","/",".",".","/","b","/">>, key |-> "output_dir", val |-> <<"a","/",".",".","/","b","/">>] >>

\* declared service names
NamePool ==
  { <<"O","r","d","e","r","S","e","r","v","i","c","e">>,
    <<"P","r","e","p","a","r","e","O","r","d","e","r","S","e","r","v","i","c","e">>,
    <<"S","e","r","v","i","c","e">>,
    <<"S","e","r","v","i","c","e","S","e","r","v","i","c","e">>,
    <<"O","r","d","e","r">>,
    <<"S","e","r","v","i","c","e","s">>,
    <<"s","e","r","v","i","c","e">>,
    <<"O","r","d","e","r","S","e","r","v","i","c","e","X">>,
    <<"S","e","r","v","i","c","e","O","r","d","e","r">>,
    <<"u","s","e","r","S","e","r","v","i","c","e">>,
    <<"_","S","e","r","v","i","c","e">>,
    <<"H","T","T","P","S","e","r","v","i","c","e">> }

\* Go package names of input files
PackagePool ==
  { <<"p","r","o","t","o","_","x">>,
    <<"p","r","o","t","o",".","x">>,
    <<"x">>,
    <<"p","r","o","t","o","_","p","r","o","t","o",".","x">>,
    <<"p","r","o","t","o",".","p","r","o","t","o","_","x">>,
    <<"p","r","o","t","o","_","p","r","o","t","o","_","x">>,
    <<"p","r","o","t","o","_">>,
    <<"p","r","o","t","o">>,
    <<"x","p","r","o","t","o","_","y">>,
    <<"P","r","o","t","o","_","x">> }

n_OrderService == <<"O","r","d","e","r","S","e","r","v","i","c","e">>
n_PrepareOrderService == <<"P","r","e","p","a","r","e","O","r","d","e","r","S","e","r","v","i","c","e">>
n_Order == <<"O","r","d","e","r">>
p_proto_x == <<"p","r","o","t","o","_","x">>
s_gen_slash == <<"g","e","n","/">>
s_out == <<"o","u","t">>

\* service lists of a file, in declaration order
ServiceListPool ==
  { <<>>,
    <<n_OrderService>>,
    <<s_Service>>,
    <<n_OrderService, n_PrepareOrderService>>,
    <<s_Service, n_OrderService>>,
    <<n_OrderService, s_Service, n_Order>>,
    <<n_PrepareOrderService, n_OrderService, n_Order, s_Service>> }

\* the parameter strings of the pipeline runs
param_full == <<"t","e","m","p","l","a","t","e","_","f","i","l","e","=","t",".","t","m","p","l",",","o","u","t","p","u","t","_","d","i","r","=","o","u","t",",","p","a","c","k","a","g","e","_","n","a","m","e","=","p","k","g">>
param_min == <<"t","e","m","p","l","a","t","e","_","f","i","l","e","=","t",".","t","m","p","l">>
param_nodir == <<"t","e","m","p","l","a","t","e","_","f","i","l","e","=","t",".","t","m","p","l",",","o","u","t","p","u","t","_","d","i","r","=">>
param_updir == <<"t","e","m","p","l","a","t","e","_","f","i","l","e","=","t",".","t","m","p","l",",","o","u","t","p","u","t","_","d","i","r","=","a","/",".",".","/","b","/">>
param_nofile == <<"o","u","t","p","u","t","_","d","i","r","=","o","u","t">>

\* the fields of ServiceInfo in each build
StructFields(v) ==
  IF v = "main" THEN {"PackageName", "ServiceName", "ProtoPackageName"}
  ELSE {"PackageName", "ServiceName", "ProtoPackageName", "ProtoImportPath"}

\* template files: whether the text is well-formed template syntax, the
\* fields it interpolates, and whether its rendering is Go source
\* ("ok"), is Go source only when the service name is a non-empty identifier
\* ("needsName"), or is never Go source ("bad")
Templates ==
  { [id |-> "good", syntaxOK |-> TRUE,
     fields |-> {"PackageName", "ServiceName", "ProtoPackageName"}, shape |-> "ok"],
    [id |-> "syntax", syntaxOK |-> FALSE,
     fields |-> {"ServiceName"}, shape |-> "ok"],
    [id |-> "nofield", syntaxOK |-> TRUE,
     fields |-> {"ServiceName", "Nonexistent"}, shape |-> "ok"],
    [id |-> "import", syntaxOK |-> TRUE,
     fields |-> {"ServiceName", "ProtoImportPath"}, shape |-> "ok"],
    [id |-> "var", syntaxOK |-> TRUE,
     fields |-> {"ServiceName"}, shape |-> "needsName"],
    [id |-> "badgo", syntaxOK |-> TRUE,
     fields |-> {"PackageName"}, shape |-> "bad"] }

GoodTemplate == CHOOSE t \in Templates : t.id = "good"

NoTemplate == [id |-> "", syntaxOK |-> TRUE, fields |-> {}, shape |-> "ok"]
NoData == [PackageName |-> <<>>, ServiceName |-> <<>>,
           ProtoPackageName |-> <<>>, ProtoImportPath |-> <<>>]
NoText == [id |-> "", vals |-> <<>>]
NoResponse == [error |-> NoErr, files |-> <<>>]

FileOf(gen, pkg, svcs) ==
  [Generate |-> gen, GoPackageName |-> pkg,
   GoImportPath |-> s_gen_slash \o pkg, Services |-> svcs]

RECURSIVE SeqsUpTo(_, _)
\* the sequences over S of length at most n
SeqsUpTo(S, n) ==
  IF n = 0 THEN { <<>> }
  ELSE LET shorter == SeqsUpTo(S, n-1)
       IN shorter \cup { Append(q, x) : q \in { r \in shorter : Len(r) = n-1 }, x \in S }

ParamOf(es) == JoinSep([i \in 1..Len(es) |-> EntryPool[es[i]].text], <<",">>)

RunStart ==
  /\ pc = "start" /\ config = <<>> /\ fi = 0 /\ si = 0
  /\ data = NoData /\ tmplContent = NoTemplate /\ buf = NoText /\ formatted = NoText
  /\ genFiles = <<>> /\ err = NoErr /\ response = NoResponse /\ log = <<>>

\* runs of the whole pipeline over requests of several files
Init ==
  /\ variant \in {"main", "part_000"}
  /\ entries = <<>>
  /\ param \in {<<>>, param_full, param_min, param_nofile}
  /\ files \in SeqsUpTo({ FileOf(g, p_proto_x, s) :
                            g \in BOOLEAN,
                            s \in { l \in ServiceListPool : Len(l) <= MaxServices } },
                        MaxFiles)
  /\ diskTemplate \in Templates
  /\ RunStart

\* runs over the parameter strings built from EntryPool
InitParse ==
  /\ variant \in {"main", "part_000"}
  /\ entries \in SeqsUpTo(1..Len(EntryPool), MaxEntries)
  /\ param = ParamOf(entries)
  /\ files = << FileOf(FALSE, p_proto_x, <<n_Order>>),
                FileOf(TRUE, p_proto_x, <<n_OrderService>>) >>
  /\ diskTemplate = GoodTemplate
  /\ RunStart

\* runs over the service and package names
InitNames ==
  /\ variant \in {"main", "part_000"}
  /\ entries = <<>>
  /\ param \in {param_full, param_min, param_nodir, param_updir}
  /\ \E g \in BOOLEAN, p \in PackagePool, n \in NamePool :
       files = << FileOf(g, p, <<n>>), FileOf(TRUE, p, <<n>>) >>
  /\ diskTemplate \in {t \in Templates : t.id \in {"good", "var"}}
  /\ RunStart

(* --------------------------- the generator ---------------------------- *)
\* toCamelCase (part_000): the first byte is lowered when it is in 'A'..'Z'
toCamelCase(s) ==
  IF Len(s) = 0 THEN s
  ELSE IF IsUpper(s[1]) THEN <<LowerByte(s[1])>> \o Tail(s)
  ELSE s

\* both prefixes stripped one after the other
ProtoPackageNameBoth(v, pkg) ==
  IF v = "main" THEN TrimPrefix(TrimPrefix(pkg, s_proto_us), s_proto_dot) ELSE pkg

\* protoPackageName of generateServiceRegistry: main.go strips one leading
\* "proto_", or else one leading "proto."; part_000 takes the name as it is
ProtoPackageNameOf(v, pkg) ==
  IF v = "main"
  THEN LET stripped == TrimPrefix(pkg, s_proto_us)
       IN IF stripped = pkg THEN TrimPrefix(pkg, s_proto_dot) ELSE stripped
  ELSE pkg

RECURSIVE ServiceNameStripAll(_)
\* every trailing "Service" stripped
ServiceNameStripAll(name) ==
  IF HasSuffix(name, s_Service)
  THEN ServiceNameStripAll(SubSeq(name, 1, Len(name) - Len(s_Service)))
  ELSE name

\* serviceName of generateServiceRegistry
ServiceNameOf(name) == TrimSuffix(name, s_Service)

\* the ServiceInfo handed to the template
ServiceInfoOf(v, c, file, name) ==
  [PackageName      |-> c.PackageName,
   ServiceName      |-> ServiceNameOf(name),
   ProtoPackageName |-> ProtoPackageNameOf(v, file.GoPackageName),
   ProtoImportPath  |-> IF v = "main" THEN <<>> ELSE file.GoImportPath]

\* the lower-camel file name in both builds
FileNameCamel(v, serviceName) == toCamelCase(serviceName) \o s_dot_go

\* fileName of generateServiceRegistry
FileNameOf(v, serviceName) ==
  (IF v = "main" THEN ToLower(serviceName) ELSE toCamelCase(serviceName)) \o s_dot_go

\* outputPath of generateServiceRegistry
OutputPathOf(v, c, serviceName) == FilepathJoin(c.OutputDir, FileNameOf(v, serviceName))

\* loadTemplate under a state of the file system
loadTemplate(status, onDisk) ==
  IF status = "notexist" THEN [content |-> NoTemplate, err |-> "template_not_found"]
  ELSE IF status = "unreadable" THEN [content |-> NoTemplate, err |-> "template_read"]
  ELSE [content |-> onDisk, err |-> NoErr]

\* tmpl.Execute: a field the struct does not have is an error
ExecuteOK(v, t) == t.fields \subseteq StructFields(v)
Rendered(t, d) == [id |-> t.id, vals |-> [f \in t.fields |-> d[f]]]

\* format.Source: an error unless the rendered text is Go source
FormatOK(t, d) ==
  \/ t.shape = "ok"
  \/ t.shape = "needsName" /\ d.ServiceName # <<>>

Logged(step) == Append(log, <<step, fi, si>>)

\* the error is dropped on the way up
FailSwallow(e) ==
  /\ err' = NoErr
  /\ pc' = "returned"

\* return err from the callback, leaving generateServiceRegistry if inside
Fail(e) ==
  /\ err' = e
  /\ pc' = "returned"

\* main: the parameter is parsed before any file is looked at
MainParseOptions ==
  /\ pc = "start"
  /\ LET r == parsePluginOptions(param)
     IN IF r.err # NoErr
        THEN /\ Fail("parse_options: " \o r.err)
             /\ UNCHANGED <<config, fi>>
        ELSE /\ config' = r.config
             /\ fi' = 1
             /\ pc' = "files"
             /\ err' = NoErr
  /\ UNCHANGED <<variant, param, entries, files, diskTemplate, si, data,
                 tmplContent, buf, formatted, genFiles, response, log>>

\* the file loop without the test of f.Generate
MainFileLoopAll ==
  /\ pc = "files"
  /\ IF fi > Len(files)
     THEN /\ pc' = "returned"
          /\ UNCHANGED <<fi, si>>
     ELSE /\ pc' = "services"
          /\ si' = 1
          /\ UNCHANGED fi
  /\ UNCHANGED <<variant, param, entries, files, diskTemplate, config, data,
                 tmplContent, buf, formatted, genFiles, err, response, log>>

\* main: for _, f := range gen.Files, skipping files with Generate false
MainFileLoop ==
  /\ pc = "files"
  /\ IF fi > Len(files)
     THEN /\ pc' = "returned"
          /\ UNCHANGED <<fi, si>>
     ELSE IF ~files[fi].Generate
     THEN /\ fi' = fi + 1
          /\ UNCHANGED <<pc, si>>
     ELSE /\ pc' = "services"
          /\ si' = 1
          /\ UNCHANGED fi
  /\ UNCHANGED <<variant, param, entries, files, diskTemplate, config, data,
                 tmplContent, buf, formatted, genFiles, err, response, log>>

\* main: for _, service := range f.Services; the call of
\* generateServiceRegistry starts with the naming data
MainServiceLoop ==
  /\ pc = "services"
  /\ IF si > Len(files[fi].Services)
     THEN /\ fi' = fi + 1
          /\ pc' = "files"
          /\ UNCHANGED <<si, data, log>>
     ELSE /\ data' = ServiceInfoOf(variant, config[1], files[fi], files[fi].Services[si])
          /\ log' = Logged("derive")
          /\ pc' = "load"
          /\ UNCHANGED <<fi, si>>
  /\ UNCHANGED <<variant, param, entries, files, diskTemplate, config,
                 tmplContent, buf, formatted, genFiles, err, response>>

\* the load step without the return on error
LoadTemplateNoReturn ==
  /\ pc = "load"
  /\ \E status \in {"ok", "notexist", "unreadable"} :
       LET r == loadTemplate(status, diskTemplate)
       IN /\ tmplContent' = r.content
          /\ err' = IF r.err # NoErr THEN "load_template: " \o r.err ELSE err
          /\ pc' = "parse"
  /\ log' = Logged("load")
  /\ UNCHANGED <<variant, param, entries, files, diskTemplate, config, fi, si,
                 data, buf, formatted, genFiles, response>>

\* generateServiceRegistry: tmplContent, err := loadTemplate(config)
LoadTemplate ==
  /\ pc = "load"
  /\ \E status \in {"ok", "notexist", "unreadable"} :
       LET r == loadTemplate(status, diskTemplate)
       IN IF r.err # NoErr
          THEN /\ Fail("load_template: " \o r.err)
               /\ UNCHANGED tmplContent
          ELSE /\ tmplContent' = r.content
               /\ pc' = "parse"
               /\ UNCHANGED err
  /\ log' = Logged("load")
  /\ UNCHANGED <<variant, param, entries, files, diskTemplate, config, fi, si,
                 data, buf, formatted, genFiles, response>>

\* generateServiceRegistry: template.New("service_registry").Parse(tmplContent)
ParseTemplate ==
  /\ pc = "parse"
  /\ IF ~tmplContent.syntaxOK
     THEN Fail("parse_template")
     ELSE /\ pc' = "exec"
          /\ UNCHANGED err
  /\ log' = Logged("parse")
  /\ UNCHANGED <<variant, param, entries, files, diskTemplate, config, fi, si,
                 data, tmplContent, buf, formatted, genFiles, response>>

\* generateServiceRegistry: tmpl.Execute(&buf, data)
ExecuteTemplate ==
  /\ pc = "exec"
  /\ IF ~ExecuteOK(variant, tmplContent)
     THEN /\ Fail("execute_template")
          /\ UNCHANGED buf
     ELSE /\ buf' = Rendered(tmplContent, data)
          /\ pc' = "format"
          /\ UNCHANGED err
  /\ log' = Logged("exec")
  /\ UNCHANGED <<variant, param, entries, files, diskTemplate, config, fi, si,
                 data, tmplContent, formatted, genFiles, response>>

\* generateServiceRegistry: format.Source(buf.Bytes())
FormatSource ==
  /\ pc = "format"
  /\ IF ~FormatOK(tmplContent, data)
     THEN /\ Fail("format_source")
          /\ UNCHANGED formatted
     ELSE /\ formatted' = buf
          /\ pc' = "register"
          /\ UNCHANGED err
  /\ log' = Logged("format")
  /\ UNCHANGED <<variant, param, entries, files, diskTemplate, config, fi, si,
                 data, tmplContent, buf, genFiles, response>>

\* registration that keeps one entry per path
RegisterFileDedupe ==
  /\ pc = "register"
  /\ LET path == OutputPathOf(variant, config[1], data.ServiceName)
     IN genFiles' = IF \E k \in 1..Len(genFiles) : genFiles[k].path = path
                    THEN genFiles
                    ELSE Append(genFiles, [path |-> path, content |-> formatted])
  /\ log' = Logged("register")
  /\ si' = si + 1
  /\ pc' = "services"
  /\ data' = NoData /\ tmplContent' = NoTemplate /\ buf' = NoText /\ formatted' = NoText
  /\ UNCHANGED <<variant, param, entries, files, diskTemplate, config, fi, err, response>>

\* generateServiceRegistry: gen.NewGeneratedFile(outputPath, ""), g.Write and
\* return nil; the locals of the call are gone and the loop goes on.  The
\* error branch of g.Write is not taken: the write appends to a bytes.Buffer
\* and returns a nil error.
RegisterFile ==
  /\ pc = "register"
  /\ genFiles' = Append(genFiles,
                        [path    |-> OutputPathOf(variant, config[1], data.ServiceName),
                         content |-> formatted])
  /\ log' = Logged("register")
  /\ si' = si + 1
  /\ pc' = "services"
  /\ data' = NoData /\ tmplContent' = NoTemplate /\ buf' = NoText /\ formatted' = NoText
  /\ UNCHANGED <<variant, param, entries, files, diskTemplate, config, fi, err, response>>

\* protogen.Options{}.Run after the callback returned: an error returned by
\* the callback is recorded with gen.Error and the response then carries the
\* error alone; otherwise it carries the registered files in order
Respond ==
  /\ pc = "returned"
  /\ response' = IF err # NoErr THEN [error |-> err, files |-> <<>>]
                 ELSE [error |-> NoErr, files |-> genFiles]
  /\ pc' = "done"
  /\ UNCHANGED <<variant, param, entries, files, diskTemplate, config, fi, si,
                 data, tmplContent, buf, formatted, genFiles, err, log>>

Next ==
  \/ MainParseOptions
  \/ MainFileLoop
  \/ MainServiceLoop
  \/ LoadTemplate
  \/ ParseTemplate
  \/ ExecuteTemplate
  \/ FormatSource
  \/ RegisterFile
  \/ Respond

Spec == Init /\ [][Next]_vars
SpecParse == InitParse /\ [][Next]_vars
SpecNames == InitNames /\ [][Next]_vars

TypeOK ==
  /\ pc \in {"start", "files", "services", "load", "parse", "exec", "format",
             "register", "returned", "done"}
  /\ Len(config) <= 1
  /\ fi \in 0..(Len(files)+1)

(* ------------------------- reading the inputs -------------------------- *)
\* the services the request asks files for, in file order and then in
\* declaration order, as <<file index, service index>>
RECURSIVE EligibleFrom(_)
EligibleFrom(i) ==
  IF i > Len(files) THEN <<>>
  ELSE (IF files[i].Generate
        THEN [j \in 1..Len(files[i].Services) |-> <<i, j>>]
        ELSE <<>>) \o EligibleFrom(i + 1)

EligibleServices == EligibleFrom(1)

StepOrder == <<"derive", "load", "parse", "exec", "format", "register">>

\* the n-th step of a run in which nothing fails
ExpectedStep(n) ==
  LET e == EligibleServices[((n - 1) \div 6) + 1]
  IN <<StepOrder[((n - 1) % 6) + 1], e[1], e[2]>>

RegisterLog == SelectSeq(log, LAMBDA e : e[1] = "register")

\* the value the documented format gives key k in the entry list es: that of
\* the last entry for k, and d when there is none
RECURSIVE LastValue(_, _, _)
LastValue(es, k, d) ==
  IF es = <<>> THEN d
  ELSE LET e == EntryPool[es[Len(es)]]
       IN IF e.key = k THEN e.val ELSE LastValue(SubSeq(es, 1, Len(es) - 1), k, d)

HasKey(es, k) == \E i \in 1..Len(es) : EntryPool[es[i]].key = k

\* a step of the run failed: the options were rejected, or the last step
\* taken for a service was not its registration
RunFailed ==
  /\ pc \in {"returned", "done"}
  /\ \/ config = <<>>
     \/ log # <<>> /\ log[Len(log)][1] # "register"

Parsed == pc # "start"
Derived == pc = "load"
CurrentName == files[fi].Services[si]
CurrentPackage == files[fi].GoPackageName

n_ServiceService == <<"S","e","r","v","i","c","e","S","e","r","v","i","c","e">>
p_proto_proto_dot_x == <<"p","r","o","t","o","_","p","r","o","t","o",".","x">>
p_proto_dot_x == <<"p","r","o","t","o",".","x">>
path_out_order == <<"o","u","t","/","o","r","d","e","r",".","g","o">>
path_out_prepareorder == <<"o","u","t","/","p","r","e","p","a","r","e","o","r","d","e","r",".","g","o">>
path_out_prepareOrder == <<"o","u","t","/","p","r","e","p","a","r","e","O","r","d","e","r",".","g","o">>

(* ------------------------------- claims -------------------------------- *)

\* C1: all-or-nothing output.  When the run has ended and a step failed
\* (the options were rejected, or the last service taken up was not
\* registered), the response carries an error and no generated file, whatever
\* was registered before the failure.
C1_AllOrNothing ==
  (pc = "done" /\ RunFailed) =>
    (response.error # NoErr /\ response.files = <<>>)

C1_Witness ==
  /\ pc = "done" /\ RunFailed
  /\ Len(genFiles) >= 1
  /\ response.error # NoErr /\ response.files = <<>>

\* C2: when the run has ended without error, the registered files are one per
\* service of the files flagged for generation: as many entries as such
\* services, the k-th registration being that of the k-th such service, and
\* the response carries exactly these entries.
C2_OnePerService ==
  (pc = "done" /\ err = NoErr) =>
    /\ Len(genFiles) = Len(EligibleServices)
    /\ response.files = genFiles
    /\ Len(RegisterLog) = Len(EligibleServices)
    /\ \A k \in 1..Len(RegisterLog) :
         RegisterLog[k] = <<"register", EligibleServices[k][1], EligibleServices[k][2]>>

C2_Witness ==
  /\ pc = "done" /\ err = NoErr
  /\ Len(EligibleServices) >= 2
  /\ Len(response.files) = Len(EligibleServices)
  /\ \E j, k \in 1..Len(genFiles) : j # k /\ genFiles[j].path = genFiles[k].path

\* C3: a file whose Generate flag is false triggers no step for any of its
\* services and contributes no generated file: every step taken belongs to a
\* flagged file, and there are exactly as many generated files as
\* registration steps.
C3_SkippedFiles ==
  /\ \A n \in 1..Len(log) : files[log[n][2]].Generate
  /\ Len(genFiles) = Len(RegisterLog)

C3_Witness ==
  /\ pc = "done"
  /\ \E i, j \in 1..Len(files) :
       /\ i < j
       /\ ~files[i].Generate /\ Len(files[i].Services) >= 2
       /\ files[j].Generate /\ Len(files[j].Services) >= 1
  /\ Len(genFiles) >= 1
  /\ \A n \in 1..Len(log) : files[log[n][2]].Generate

\* C4 as stated: every entry template_file=X with a non-empty X in the
\* parameter string makes parsing succeed with templateFile = X, and a string
\* without the key makes it fail.
C4_Original ==
  Parsed =>
    /\ \A i \in 1..Len(entries) :
         (EntryPool[entries[i]].key = "template_file" /\ EntryPool[entries[i]].val # <<>>)
           => (config # <<>> /\ config[1].TemplateFile = EntryPool[entries[i]].val)
    /\ ~HasKey(entries, "template_file") => (config = <<>> /\ err # NoErr)

\* C4 as amended: when the last entry for template_file has the non-empty
\* trimmed value X, parsing succeeds with templateFile = X; a string without
\* the key makes parsing fail.
C4_LastEntryWins ==
  Parsed =>
    /\ (HasKey(entries, "template_file") /\ LastValue(entries, "template_file", <<>>) # <<>>)
         => (config # <<>> /\ config[1].TemplateFile = LastValue(entries, "template_file", <<>>))
    /\ ~HasKey(entries, "template_file") => (config = <<>> /\ err # NoErr)

C4_Witness ==
  /\ Parsed /\ config # <<>>
  /\ \E i, j \in 1..Len(entries) :
       /\ i < j
       /\ EntryPool[entries[i]].key = "template_file"
       /\ EntryPool[entries[j]].key = "template_file"
       /\ EntryPool[entries[i]].val # EntryPool[entries[j]].val
       /\ IndexByte(EntryPool[entries[j]].val, "=") # 0
       /\ config[1].TemplateFile = EntryPool[entries[j]].val

\* C5: a configuration that was returned has a non-empty templateFile; the
\* empty parameter string, and every string that leaves templateFile empty
\* (no entry for the key, or the last one with an empty trimmed value), gives
\* an error and no configuration, and then no file or service is processed.
C5_TemplateFileRequired ==
  /\ config # <<>> => config[1].TemplateFile # <<>>
  /\ (Parsed /\ (param = <<>> \/ LastValue(entries, "template_file", <<>>) = <<>>)) =>
       /\ config = <<>>
       /\ err # NoErr
       /\ log = <<>> /\ genFiles = <<>> /\ fi = 0 /\ si = 0
       /\ pc \in {"returned", "done"}

C5_Witness ==
  /\ pc = "done"
  /\ HasKey(entries, "template_file")
  /\ HasKey(entries, "output_dir")
  /\ LastValue(entries, "template_file", <<>>) = <<>>
  /\ config = <<>> /\ err # NoErr /\ log = <<>>
  /\ response.error # NoErr

\* C6: entries without "=" and entries with an unrecognised key set nothing
\* and cause no failure: parsing succeeds exactly when the entries for
\* template_file leave a non-empty value, and then outputDir and packageName
\* are the trimmed value of the (last) entry for their key, or the default
\* "local_service_center" when there is none.
C6_TolerantDefaults ==
  Parsed =>
    /\ config # <<>> <=> LastValue(entries, "template_file", <<>>) # <<>>
    /\ config # <<>> =>
         /\ config[1].OutputDir = LastValue(entries, "output_dir", s_local_service_center)
         /\ config[1].PackageName = LastValue(entries, "package_name", s_local_service_center)

C6_Witness ==
  /\ Parsed /\ config # <<>>
  /\ \E i \in 1..Len(entries) :
       EntryPool[entries[i]].key = "" /\ IndexByte(EntryPool[entries[i]].text, "=") = 0
  /\ \E i \in 1..Len(entries) :
       EntryPool[entries[i]].key = "" /\ IndexByte(EntryPool[entries[i]].text, "=") # 0
  /\ config[1].OutputDir = s_local_service_center
  /\ config[1].PackageName = s_local_service_center

\* C7: the derived service name is the declared name without one trailing
\* "Service" when the name ends in it (ServiceService gives Service, Service
\* gives the empty string), and the declared name itself otherwise; no error
\* comes of it.
C7_ServiceName ==
  Derived =>
    /\ HasSuffix(CurrentName, s_Service) => data.ServiceName \o s_Service = CurrentName
    /\ ~HasSuffix(CurrentName, s_Service) => data.ServiceName = CurrentName
    /\ CurrentName = n_ServiceService => data.ServiceName = s_Service
    /\ CurrentName = s_Service => data.ServiceName = <<>>
    /\ err = NoErr

C7_Witness ==
  /\ Derived
  /\ CurrentName = n_ServiceService
  /\ data.ServiceName = s_Service

\* C8: in main.go the proto package name is the Go package name without one
\* leading "proto_" if it has one, else without one leading "proto." if it
\* has one, else unchanged; never are two prefixes removed (proto_proto.x
\* gives proto.x).
C8_OnePrefix ==
  (Derived /\ variant = "main") =>
    /\ HasPrefix(CurrentPackage, s_proto_us) =>
         s_proto_us \o data.ProtoPackageName = CurrentPackage
    /\ (~HasPrefix(CurrentPackage, s_proto_us) /\ HasPrefix(CurrentPackage, s_proto_dot)) =>
         s_proto_dot \o data.ProtoPackageName = CurrentPackage
    /\ (~HasPrefix(CurrentPackage, s_proto_us) /\ ~HasPrefix(CurrentPackage, s_proto_dot)) =>
         data.ProtoPackageName = CurrentPackage
    /\ CurrentPackage = p_proto_proto_dot_x => data.ProtoPackageName = p_proto_dot_x

C8_Witness ==
  /\ Derived /\ variant = "main"
  /\ CurrentPackage = p_proto_proto_dot_x
  /\ data.ProtoPackageName = p_proto_dot_x

\* C9: every registered path is filepath.Join(outputDir, base.go), base being
\* the derived service name with every letter lowered (main.go) or with its
\* first letter lowered and the rest unchanged (part_000); with output_dir=out
\* OrderService is registered at out/order.go in both builds and
\* PrepareOrderService at out/prepareorder.go resp. out/prepareOrder.go.
C9_OutputPath ==
  \A k \in 1..Len(genFiles) :
    LET r == RegisterLog[k]
        name == files[r[2]].Services[r[3]]
        sn == IF HasSuffix(name, s_Service)
              THEN SubSeq(name, 1, Len(name) - Len(s_Service)) ELSE name
        base == IF variant = "main"
                THEN [i \in 1..Len(sn) |-> LowerByte(sn[i])]
                ELSE [i \in 1..Len(sn) |-> IF i = 1 THEN LowerByte(sn[i]) ELSE sn[i]]
        dir == config[1].OutputDir
        path == genFiles[k].path
    IN /\ path = FilepathJoin(dir, base \o s_dot_go)
       /\ dir = <<>> => path = base \o s_dot_go
       /\ dir = s_out => path = s_out \o <<"/">> \o base \o s_dot_go
       /\ (dir = s_out /\ name = n_OrderService) => path = path_out_order
       /\ (dir = s_out /\ name = n_PrepareOrderService) =>
            path = IF variant = "main" THEN path_out_prepareorder
                   ELSE path_out_prepareOrder

C9_Witness ==
  /\ Len(genFiles) = 2
  /\ variant = "main"
  /\ files[2].Services[1] = n_PrepareOrderService
  /\ genFiles[2].path = path_out_prepareorder

\* C10: fail-fast sequencing.  The steps taken are always an initial part of
\* the steps of a run in which nothing fails: the flagged services in file
\* order then declaration order, each through derive, load, parse, exec,
\* format, register.  A file is registered only right after the format step
\* of the same service, with no error; and once an error is set no further
\* step is taken and nothing more is registered.
C10_FailFast ==
  [][ /\ Len(log') <= 6 * Len(EligibleServices)
      /\ \A n \in 1..Len(log') : log'[n] = ExpectedStep(n)
      /\ genFiles' # genFiles =>
           /\ err = NoErr /\ err' = NoErr
           /\ log # <<>> /\ log[Len(log)] = <<"format", fi, si>>
           /\ log' = Append(log, <<"register", fi, si>>)
           /\ Len(genFiles') = Len(genFiles) + 1
      /\ err # NoErr => (log' = log /\ genFiles' = genFiles) ]_vars

C10_Witness ==
  /\ pc = "done" /\ err # NoErr
  /\ Len(RegisterLog) >= 1
  /\ log[Len(log)][1] = "load"
  /\ Len(log) + 6 <= 6 * Len(EligibleServices)

====
